---- MODULE Spec2Model ----
(***************************************************************************)
(* A model of app.py: the Streamlit page `main` (analyze, then prepare     *)
(* download), the helpers it calls (validate_url, extract_metadata,        *)
(* build_ydl_options, download_content) and the session state it keeps.    *)
(* Strings are TLA+ strings; Len, SubSeq and \o act on them character by   *)
(* character.                                                              *)
(***************************************************************************)
EXTENDS Integers, Sequences, FiniteSets, TLC

\* Python's None, in a slot that otherwise holds a dict.
None == [None |-> TRUE]

\* Python's None, in a slot that otherwise holds a str or bytes.
NoneStr == "<None>"

(***************************************************************************)
(* String primitives used by the source: str.lower, str.strip, `in`,       *)
(* slicing.                                                                *)
(***************************************************************************)
UpperChars == "ABCDEFGHIJKLMNOPQRSTUVWXYZ"

LowerChars == "abcdefghijklmnopqrstuvwxyz"

DigitChars == "0123456789"

WhiteChars == " \t\n"

\* s[i] (1-based), "" outside the string
CharAt(s, i) == IF i \in 1..Len(s) THEN SubSeq(s, i, i) ELSE ""

\* the characters i..j of s that exist (a Python slice never fails)
Slice(s, i, j) ==
    LET a == IF i < 1 THEN 1 ELSE i
        b == IF j > Len(s) THEN Len(s) ELSE j
    IN  IF a > b THEN "" ELSE SubSeq(s, a, b)

InChars(c, chars) == Len(c) = 1 /\ \E i \in 1..Len(chars) : CharAt(chars, i) = c

LowerChar(c) ==
    IF InChars(c, UpperChars)
    THEN CharAt(LowerChars, CHOOSE i \in 1..Len(UpperChars) : CharAt(UpperChars, i) = c)
    ELSE c

RECURSIVE Lower(_)
Lower(s) ==
    IF Len(s) = 0 THEN ""
    ELSE IF Len(s) = 1 THEN LowerChar(s)
    ELSE LET half == Len(s) \div 2
         IN  Lower(Slice(s, 1, half)) \o Lower(Slice(s, half + 1, Len(s)))

IsSpace(c) == InChars(c, WhiteChars)

IsDigit(c) == InChars(c, DigitChars)

IsAlpha(c) == InChars(c, LowerChars) \/ InChars(c, UpperChars)

IsAlnum(c) == IsAlpha(c) \/ IsDigit(c)

\* sub in s
Contains(s, sub) ==
    \E i \in 1..(Len(s) - Len(sub) + 1) : SubSeq(s, i, i + Len(sub) - 1) = sub

RECURSIVE LStrip(_)
LStrip(s) == IF Len(s) > 0 /\ IsSpace(Head(s)) THEN LStrip(Tail(s)) ELSE s

RECURSIVE RStrip(_)
RStrip(s) ==
    IF Len(s) > 0 /\ IsSpace(CharAt(s, Len(s)))
    THEN RStrip(Slice(s, 1, Len(s) - 1))
    ELSE s

Strip(s) == RStrip(LStrip(s))

\* s[:n]
Truncate(s, n) == Slice(s, 1, n)

(***************************************************************************)
(* validate_url: the regular expression, matched as sets of positions.     *)
(* A position p means "the next character to read is s[p]".                *)
(***************************************************************************)
\* ^https?://   (re.IGNORECASE)
AfterScheme(s) ==
    {p \in {8, 9} : Lower(Slice(s, 1, p - 1)) = (IF p = 8 THEN "http://" ELSE "https://")}

\* [A-Z0-9](?:[A-Z0-9-]{0,61}[A-Z0-9])?\.   read from p; the positions after it
AfterLabel(s, p) ==
    {q \in (p + 2)..(Len(s) + 1) :
        /\ q - 1 - p <= 63
        /\ CharAt(s, q - 1) = "."
        /\ IsAlnum(CharAt(s, p))
        /\ IsAlnum(CharAt(s, q - 2))
        /\ \A i \in (p + 1)..(q - 3) : IsAlnum(CharAt(s, i)) \/ CharAt(s, i) = "-"}

\* (?:label\.)+   read from any position of P
RECURSIVE AfterLabels(_, _, _)
AfterLabels(s, P, n) ==
    LET Q == UNION {AfterLabel(s, p) : p \in P}
    IN  IF n = 0 \/ Q = {} THEN {} ELSE Q \cup AfterLabels(s, Q, n - 1)

\* [A-Z]{2,6}\.?
AfterTld(s, p) ==
    LET ends == {q \in (p + 2)..(p + 6) :
                    /\ q <= Len(s) + 1
                    /\ \A i \in p..(q - 1) : IsAlpha(CharAt(s, i))}
    IN  ends \cup {q + 1 : q \in {e \in ends : e <= Len(s) /\ CharAt(s, e) = "."}}

\* \d{1,3}
AfterOctet(s, p) ==
    {q \in (p + 1)..(p + 3) :
        q <= Len(s) + 1 /\ \A i \in p..(q - 1) : IsDigit(CharAt(s, i))}

\* \.
AfterDot(s, P) == {p + 1 : p \in {q \in P : q <= Len(s) /\ CharAt(s, q) = "."}}

\* \d{1,3}\.\d{1,3}\.\d{1,3}\.\d{1,3}
AfterIPv4(s, p) ==
    LET o1 == AfterOctet(s, p)
        o2 == UNION {AfterOctet(s, q) : q \in AfterDot(s, o1)}
        o3 == UNION {AfterOctet(s, q) : q \in AfterDot(s, o2)}
    IN  UNION {AfterOctet(s, q) : q \in AfterDot(s, o3)}

\* localhost
AfterLocalhost(s, p) ==
    IF Lower(Slice(s, p, p + 8)) = "localhost" THEN {p + 9} ELSE {}

\* the host alternation
AfterHost(s, p) ==
    UNION {AfterTld(s, q) : q \in AfterLabels(s, {p}, Len(s))}
        \cup AfterLocalhost(s, p)
        \cup AfterIPv4(s, p)

\* (?::\d+)?
AfterPort(s, p) ==
    {p} \cup {q \in (p + 2)..(Len(s) + 1) :
                /\ CharAt(s, p) = ":"
                /\ \A i \in (p + 1)..(q - 1) : IsDigit(CharAt(s, i))}

\* (?:/?|[/?]\S+)$
TailMatches(s, p) ==
    \/ p = Len(s) + 1
    \/ p = Len(s) /\ CharAt(s, p) = "/"
    \/ /\ p < Len(s)
       /\ CharAt(s, p) \in {"/", "?"}
       /\ \A i \in (p + 1)..Len(s) : ~IsSpace(CharAt(s, i))

UrlPatternMatches(s) ==
    \E p \in AfterScheme(s) :
        \E h \in AfterHost(s, p) :
            \E q \in AfterPort(s, h) : TailMatches(s, q)

validate_url(url) ==
    IF Len(url) = 0 \/ Len(Strip(url)) = 0
    THEN FALSE
    ELSE UrlPatternMatches(Strip(url))

(***************************************************************************)
(* get_platform_name: the ordered domain table, first match wins.          *)
(***************************************************************************)
platforms ==
    << <<"youtube.com", "YouTube">>,
       <<"youtu.be", "YouTube">>,
       <<"tiktok.com", "TikTok">>,
       <<"instagram.com", "Instagram">>,
       <<"facebook.com", "Facebook">>,
       <<"twitter.com", "X (Twitter)">>,
       <<"x.com", "X (Twitter)">>,
       <<"vimeo.com", "Vimeo">>,
       <<"dailymotion.com", "Dailymotion">>,
       <<"twitch.tv", "Twitch">>,
       <<"reddit.com", "Reddit">>,
       <<"soundcloud.com", "SoundCloud">>,
       <<"spotify.com", "Spotify">> >>

\* the label returned when no domain matches (the Hebrew word for "other")
OtherLabel == "other"

\* get_platform_name with the last matching entry of the table deciding
get_platform_name_last_match(url) ==
    LET hits == {i \in 1..Len(platforms) : Contains(Lower(url), platforms[i][1])}
    IN  IF hits = {} THEN OtherLabel
        ELSE platforms[CHOOSE i \in hits : \A j \in hits : j <= i][2]

get_platform_name(url) ==
    LET hits == {i \in 1..Len(platforms) : Contains(Lower(url), platforms[i][1])}
    IN  IF hits = {}
        THEN OtherLabel
        ELSE platforms[CHOOSE i \in hits : \A j \in hits : i <= j][2]

(***************************************************************************)
(* Dicts are functions from keys to values.                                *)
(***************************************************************************)
\* d.get(k, default)
Get(d, k, default) == IF k \in DOMAIN d THEN d[k] ELSE default

\* d[k] = v
DictSet(d, k, v) == [x \in (DOMAIN d) \cup {k} |-> IF x = k THEN v ELSE d[x]]

\* bool(d) of a dict or None
TruthyDict(d) == d # None /\ DOMAIN d # {}

\* bool(b) of bytes or None
TruthyBytes(b) == b # NoneStr /\ Len(b) > 0

LogRec(level, message) == [level |-> level, message |-> message]

(***************************************************************************)
(* extract_metadata, from the library's answer `lib` to the inspect call:  *)
(* [kind |-> "raise", exc |-> text] or [kind |-> "return", info |-> dict   *)
(* or None].  `log` is what is logged after the library call.              *)
(***************************************************************************)
ExtractStartLog(url) == LogRec("info", "Extracting metadata from: " \o url)

NormalizeInfo(url, info) ==
    [title      |-> Get(info, "title", "Unknown"),
     duration   |-> Get(info, "duration", 0),
     thumbnail  |-> Get(info, "thumbnail", ""),
     uploader   |-> Get(info, "uploader", "Unknown"),
     view_count |-> Get(info, "view_count", 0),
     platform   |-> get_platform_name(url),
     url        |-> url,
     formats    |-> Get(info, "formats", <<>>)]

\* extract_metadata with the exception logged and then dropped
extract_metadata_swallows(url, lib) ==
    IF lib.kind = "raise"
    THEN [kind  |-> "return",
          value |-> None,
          log   |-> <<LogRec("error", "Error extracting metadata: " \o lib.exc)>>]
    ELSE IF TruthyDict(lib.info)
    THEN LET metadata == NormalizeInfo(url, lib.info)
         IN  [kind  |-> "return",
              value |-> metadata,
              log   |-> <<LogRec("info", "Metadata extracted: " \o metadata.title)>>]
    ELSE [kind |-> "return", value |-> None, log |-> <<>>]

\* extract_metadata without `if info:`: a record of defaults for no record
extract_metadata_defaults(url, lib) ==
    IF lib.kind = "raise"
    THEN [kind  |-> "raise",
          exc   |-> lib.exc,
          log   |-> <<LogRec("error", "Error extracting metadata: " \o lib.exc)>>]
    ELSE LET metadata == NormalizeInfo(url, lib.info)
         IN  [kind  |-> "return",
              value |-> metadata,
              log   |-> <<LogRec("info", "Metadata extracted: " \o metadata.title)>>]

extract_metadata(url, lib) ==
    IF lib.kind = "raise"
    THEN [kind  |-> "raise",
          exc   |-> lib.exc,
          log   |-> <<LogRec("error", "Error extracting metadata: " \o lib.exc)>>]
    ELSE IF TruthyDict(lib.info)
    THEN LET metadata == NormalizeInfo(url, lib.info)
         IN  [kind  |-> "return",
              value |-> metadata,
              log   |-> <<LogRec("info", "Metadata extracted: " \o metadata.title)>>]
    ELSE [kind |-> "return", value |-> None, log |-> <<>>]

(***************************************************************************)
(* build_ydl_options.  The Hebrew widget labels are written in Latin       *)
(* letters.                                                                *)
(***************************************************************************)
\* the quality label "the best" of both selectors
BestLabel == "hakhi tov"

UserAgent ==
    "Mozilla/5.0 (Windows NT 10.0; Win64; x64) AppleWebKit/537.36 (KHTML, like Gecko) Chrome/120.0.0.0 Safari/537.36"

video_quality_map ==
    [q \in {BestLabel, "4K (2160p)", "1080p", "720p"} |->
        CASE q = BestLabel    -> "bestvideo+bestaudio/best"
          [] q = "4K (2160p)" -> "bestvideo[height<=2160]+bestaudio/best[height<=2160]"
          [] q = "1080p"      -> "bestvideo[height<=1080]+bestaudio/best[height<=1080]"
          [] q = "720p"       -> "bestvideo[height<=720]+bestaudio/best[height<=720]"]

audio_quality_map ==
    [q \in {BestLabel, "192kbps", "128kbps"} |->
        CASE q = BestLabel -> "0"
          [] q = "192kbps" -> "192"
          [] q = "128kbps" -> "128"]

audio_format_map == [e \in {"mp3", "m4a", "wav"} |-> e]

\* os.path.join(temp_dir, name)
PathJoin(dir, name) == dir \o "/" \o name

base_opts(temp_dir, download_type, extension) ==
    [outtmpl             |-> PathJoin(temp_dir, "%(title)s.%(ext)s"),
     quiet               |-> FALSE,
     no_warnings         |-> FALSE,
     merge_output_format |-> IF download_type = "video" THEN extension ELSE NoneStr,
     postprocessor_args  |-> <<"-y">>,
     http_headers        |->
        [User_Agent      |-> UserAgent,
         Accept          |-> "text/html,application/xhtml+xml,application/xml;q=0.9,*/*;q=0.8",
         Accept_Language |-> "en-US,en;q=0.5"]]

VideoDefaultFormat == "bestvideo+bestaudio/best"

AudioDefaultQuality == "0"

\* VideoFormat with the lowest tier as the fallback
VideoFormatDefault720(quality) ==
    Get(video_quality_map, quality, video_quality_map["720p"])

VideoFormat(quality) == Get(video_quality_map, quality, VideoDefaultFormat)

AudioQuality(quality) == Get(audio_quality_map, quality, AudioDefaultQuality)

\* build_ydl_options with the mp4 converter requested for every video extension
build_ydl_options_always_converts(temp_dir, download_type, extension, quality) ==
    LET base == base_opts(temp_dir, download_type, extension)
    IN  IF download_type = "video"
        THEN DictSet(DictSet(base, "format", VideoFormat(quality)),
                     "postprocessors",
                     << [key |-> "FFmpegVideoConvertor", preferedformat |-> "mp4"] >>)
        ELSE DictSet(DictSet(base, "format", "bestaudio/best"),
                     "postprocessors",
                     << [key              |-> "FFmpegExtractAudio",
                         preferredcodec   |-> Get(audio_format_map, extension, "mp3"),
                         preferredquality |-> AudioQuality(quality)] >>)

build_ydl_options(temp_dir, download_type, extension, quality) ==
    LET base == base_opts(temp_dir, download_type, extension)
    IN  IF download_type = "video"
        THEN LET withFormat == DictSet(base, "format", VideoFormat(quality))
             IN  IF extension = "mp4"
                 THEN DictSet(withFormat, "postprocessors",
                              << [key |-> "FFmpegVideoConvertor", preferedformat |-> "mp4"] >>)
                 ELSE IF extension = "mkv"
                 THEN DictSet(withFormat, "merge_output_format", "mkv")
                 ELSE IF extension = "webm"
                 THEN DictSet(withFormat, "merge_output_format", "webm")
                 ELSE withFormat
        ELSE LET audio_quality == AudioQuality(quality)
                 audio_format  == Get(audio_format_map, extension, "mp3")
             IN  DictSet(DictSet(base, "format", "bestaudio/best"),
                         "postprocessors",
                         << [key              |-> "FFmpegExtractAudio",
                             preferredcodec   |-> audio_format,
                             preferredquality |-> audio_quality] >>)

(***************************************************************************)
(* download_content, from the scratch directory's files when the fetch     *)
(* call ended and the library's answer `lib`: [kind |-> "raise", exc |->   *)
(* text] or [kind |-> "return"].  `pick` is the file glob lists first.     *)
(***************************************************************************)
\* the text of the "no downloaded file was found" exception (Hebrew in the source)
NoFileMsg == "no downloaded file found"

DownloadStartLog(download_type, extension, quality) ==
    LogRec("info", "Starting download: type=" \o download_type
                   \o ", ext=" \o extension \o ", quality=" \o quality)

DownloadErrorLog(exc) == LogRec("error", "Download error: " \o exc)

\* download_content answering an empty result when no file was produced
download_content_empty_result(files, pick, lib) ==
    IF lib.kind = "raise"
    THEN [kind |-> "raise", exc |-> lib.exc, log |-> <<DownloadErrorLog(lib.exc)>>]
    ELSE IF files # {}
    THEN [kind      |-> "return",
          file_name |-> pick.name,
          file_bytes |-> pick.bytes,
          log       |-> <<LogRec("info", "Download complete: " \o pick.name)>>]
    ELSE [kind |-> "return", file_name |-> "", file_bytes |-> "", log |-> <<>>]

download_content(files, pick, lib) ==
    IF lib.kind = "raise"
    THEN [kind |-> "raise", exc |-> lib.exc, log |-> <<DownloadErrorLog(lib.exc)>>]
    ELSE IF files # {}
    THEN [kind      |-> "return",
          file_name |-> pick.name,
          file_bytes |-> pick.bytes,
          log       |-> <<LogRec("info", "Download complete: " \o pick.name)>>]
    ELSE [kind |-> "raise", exc |-> NoFileMsg, log |-> <<DownloadErrorLog(NoFileMsg)>>]

(***************************************************************************)
(* main: the messages it shows (Hebrew in the source, paraphrased here)    *)
(* and the two error classifiers.                                          *)
(***************************************************************************)
MsgInvalidUrl == "The link entered is not valid. Please enter a full link."

MsgAnalyzed == "The link was analyzed successfully!"

MsgCouldNotAnalyze == "Could not analyze the link. Try another link."

MsgLoginRequired == "This platform requires login. Try another platform."

MsgInstagram == "Instagram requires login. Try a public video from another platform."

MsgBlocked == "Access is temporarily blocked. Wait a minute and try again."

MsgNotAvailable == "The content is not available or private. Try another link."

MsgGenericPrefix == "Error: "

MsgFileReady == "The file is ready for download!"

MsgDownloadBlocked == "Access was blocked. Try another link or another platform."

MsgDownloadErrorPrefix == "Download error: "

\* error_msg[:100]
GenericErrorChars == 100

\* ClassifyExtractError with the instagram test before the login/cookies test
ClassifyExtractErrorInstagramFirst(error_msg) ==
    IF Contains(Lower(error_msg), "instagram")
    THEN MsgInstagram
    ELSE IF Contains(Lower(error_msg), "login") \/ Contains(Lower(error_msg), "cookies")
    THEN MsgLoginRequired
    ELSE IF \/ Contains(error_msg, "403")
            \/ Contains(Lower(error_msg), "blocked")
            \/ Contains(Lower(error_msg), "rate")
    THEN MsgBlocked
    ELSE IF Contains(Lower(error_msg), "not available")
    THEN MsgNotAvailable
    ELSE MsgGenericPrefix \o Truncate(error_msg, GenericErrorChars)

ClassifyExtractError(error_msg) ==
    IF Contains(Lower(error_msg), "login") \/ Contains(Lower(error_msg), "cookies")
    THEN MsgLoginRequired
    ELSE IF Contains(Lower(error_msg), "instagram")
    THEN MsgInstagram
    ELSE IF \/ Contains(error_msg, "403")
            \/ Contains(Lower(error_msg), "blocked")
            \/ Contains(Lower(error_msg), "rate")
    THEN MsgBlocked
    ELSE IF Contains(Lower(error_msg), "not available")
    THEN MsgNotAvailable
    ELSE MsgGenericPrefix \o Truncate(error_msg, GenericErrorChars)

ClassifyDownloadError(error_msg) ==
    IF Contains(error_msg, "403")
    THEN MsgDownloadBlocked
    ELSE MsgDownloadErrorPrefix \o error_msg

Shown(kind, text) == [kind |-> kind, text |-> text]

\* Path(name).suffix
Suffix(name) ==
    LET dots == {i \in 1..Len(name) : CharAt(name, i) = "."}
        last == CHOOSE i \in dots : \A j \in dots : j <= i
    IN  IF dots = {} \/ last = 1 \/ last = Len(name) THEN "" ELSE Slice(name, last, Len(name))

mime_types ==
    [e \in {".mp4", ".mkv", ".webm", ".mp3", ".m4a", ".wav"} |->
        CASE e = ".mp4"  -> "video/mp4"
          [] e = ".mkv"  -> "video/x-matroska"
          [] e = ".webm" -> "video/webm"
          [] e = ".mp3"  -> "audio/mpeg"
          [] e = ".m4a"  -> "audio/mp4"
          [] e = ".wav"  -> "audio/wav"]

MimeType(name) == Get(mime_types, Lower(Suffix(name)), "application/octet-stream")

\* DownloadNow with `is not None` in the place of the truth test
DownloadNowIfNotNone(fr, fn) ==
    IF fr # NoneStr
    THEN [data |-> fr, file_name |-> fn, mime |-> MimeType(fn)]
    ELSE None

\* the "download now" element of a render: None when it is not offered
DownloadNow(fr, fn) ==
    IF TruthyBytes(fr)
    THEN [data |-> fr, file_name |-> fn, mime |-> MimeType(fn)]
    ELSE None

\* DownloadCallUrl reading the URL text field of the run
DownloadCallUrlFromField(scope) == scope.url

\* the URL the download handler passes to download_content: `metadata['url']`,
\* where `scope` holds the script's variables `metadata` and `url`
DownloadCallUrl(scope) == scope.metadata.url

\* AnalyzeBranch without the validate_url test
AnalyzeBranchNoValidation(analyze_btn, url) ==
    IF ~(analyze_btn /\ Len(url) > 0) THEN "skip" ELSE "extract"

\* `if analyze_btn and url:` and `if not validate_url(url):`
AnalyzeBranch(analyze_btn, url) ==
    IF ~(analyze_btn /\ Len(url) > 0) THEN "skip"
    ELSE IF ~validate_url(url) THEN "invalid"
    ELSE "extract"

\* SessionAfterAnalyze without the `file_ready = None` assignment
SessionAfterAnalyzeKeepsFile(sess, res) ==
    IF res.kind = "return" /\ TruthyDict(res.value)
    THEN [sess EXCEPT !.metadata = res.value]
    ELSE sess

\* SessionAfterAnalyze with `file_ready = None` placed before `if metadata:`
SessionAfterAnalyzeAlwaysClears(sess, res) ==
    IF res.kind = "return"
    THEN [sess EXCEPT !.metadata = IF TruthyDict(res.value) THEN res.value ELSE @,
                      !.file_ready = NoneStr]
    ELSE sess

\* the session state after extract_metadata ended with `res`
SessionAfterAnalyze(sess, res) ==
    IF res.kind = "return" /\ TruthyDict(res.value)
    THEN [sess EXCEPT !.metadata = res.value, !.file_ready = NoneStr]
    ELSE sess

\* the message the analyze action shows
AnalyzeMessage(res) ==
    IF res.kind = "raise" THEN Shown("error", ClassifyExtractError(res.exc))
    ELSE IF TruthyDict(res.value) THEN Shown("success", MsgAnalyzed)
    ELSE Shown("error", MsgCouldNotAnalyze)

\* SessionAfterDownload with the stored file dropped when the download fails
SessionAfterDownloadClearsOnFailure(sess, res) ==
    IF res.kind = "return"
    THEN [sess EXCEPT !.file_ready = res.file_bytes, !.file_name = res.file_name]
    ELSE [sess EXCEPT !.file_ready = NoneStr, !.file_name = NoneStr]

\* the session state after download_content ended with `res`
SessionAfterDownload(sess, res) ==
    IF res.kind = "return"
    THEN [sess EXCEPT !.file_ready = res.file_bytes, !.file_name = res.file_name]
    ELSE sess

\* the message the prepare-download action shows
DownloadMessage(res) ==
    IF res.kind = "return"
    THEN Shown("success", MsgFileReady)
    ELSE Shown("error", ClassifyDownloadError(res.exc))

\* ScratchAfterExit with the directory removed on the success path only
ScratchAfterExitOnReturnOnly(dirs, dir, res) ==
    IF res.kind = "return" THEN [d \in (DOMAIN dirs) \ {dir} |-> dirs[d]] ELSE dirs

\* the scratch directories that exist once `with tempfile.TemporaryDirectory()`
\* is left, whatever download_content's outcome `res`
ScratchAfterExit(dirs, dir, res) == [d \in (DOMAIN dirs) \ {dir} |-> dirs[d]]

\* InspectCallPc with the inspect call handed to a thread: the run goes on
InspectCallNotBlocking == "render"

\* the script's position once the inspect call is made: the call blocks the run
InspectCallPc == "inspecting"

\* the script's position once the fetch call is made: the call blocks the run
FetchCallPc == "fetching"

(***************************************************************************)
(* The inputs the model draws from.                                        *)
(***************************************************************************)
\* what the user may type into the URL field
UrlChoices ==
    {"", "not-a-url", "ftp://youtube.com/watch",
     "https://www.youtube.com/watch?v=abc123", "HTTPS://Example.com/x"}

\* the texts of the exceptions the library raises
ErrTexts == {"ERROR: login required", "HTTP Error 403: Forbidden"}

InfoFull ==
    [title      |-> "Clip",
     duration   |-> 95,
     thumbnail  |-> "https://img.example/1.jpg",
     uploader   |-> "Ann",
     view_count |-> 7,
     formats    |-> <<"18", "137">>]

\* a record that holds none of the fields extract_metadata reads
InfoBare == [id |-> "abc123"]

\* the empty dict
InfoEmpty == [k \in {} |-> ""]

\* what extract_info may answer
InspectAnswers ==
    {[kind |-> "raise", exc |-> e] : e \in ErrTexts}
        \cup {[kind |-> "return", info |-> i] : i \in {None, InfoEmpty, InfoBare, InfoFull}}

\* what ydl.download may answer
FetchAnswers == {[kind |-> "raise", exc |-> e] : e \in ErrTexts} \cup {[kind |-> "return"]}

\* the files the library may leave in the scratch directory
FilePool ==
    {[name |-> "Clip.mp4", bytes |-> "VIDEO-BYTES"],
     [name |-> "Clip.MP3", bytes |-> ""],
     [name |-> "Clip.f137.part", bytes |-> "PARTIAL"]}

\* files[0] when glob lists nothing: never read
NoFile == [name |-> "", bytes |-> ""]

\* how many files the library leaves in the scratch directory at most
MaxFiles == 2

\* the names tempfile may give a scratch directory
DirNames == {"/tmp/tmpa1", "/tmp/tmpb2"}

\* the labels of the content-type radio (Hebrew in the source)
VideoLabel == "video"

AudioLabel == "audio"

\* values the three selectors hold together, of the 21 the page allows
Selections ==
    {[download_type |-> VideoLabel, extension |-> "mp4", quality |-> BestLabel],
     [download_type |-> AudioLabel, extension |-> "mp3", quality |-> "192kbps"]}

\* the name tempfile gives a new scratch directory: one that is not in use
FreshDir(used) == CHOOSE d \in DirNames \ used : TRUE

DefaultSelection == [download_type |-> VideoLabel, extension |-> "mp4", quality |-> BestLabel]

(***************************************************************************)
(* The state: one browser session of the page.                             *)
(***************************************************************************)
VARIABLES
    metadata,    \* st.session_state.metadata
    file_ready,  \* st.session_state.file_ready
    file_name,   \* st.session_state.file_name
    url_input,   \* the content of the URL text field
    pending,     \* the rerun request waiting for the script: which triggers it carries
    pc,          \* where the script run stands: idle, analyze, inspecting, render, fetching
    run,         \* the widget values the running script read
    page,        \* what the page shows: messages, the two download buttons
    log,         \* the records logged during the current run
    scratch,     \* the scratch directories that exist, each with its files
    calls,       \* the library calls in progress
    ret,         \* history: how the last extract_metadata / download_content call ended
    file_url,    \* history: the URL the stored file was fetched from
    fn_in,       \* the argument of a function applied on its own
    fn_out       \* its result

vars ==
    <<metadata, file_ready, file_name, url_input, pending, pc, run, page, log,
      scratch, calls, ret, file_url, fn_in, fn_out>>

session == <<metadata, file_ready, file_name>>

Sess == [metadata |-> metadata, file_ready |-> file_ready, file_name |-> file_name]

NoPending == [rerun |-> FALSE, analyze |-> FALSE, download |-> FALSE]

IdleRun ==
    [analyze_btn |-> FALSE, download_btn |-> FALSE, url |-> "", sel |-> DefaultSelection]

NoRet == [fn |-> "none"]

NoFn == [fn |-> "none"]

NoDirs == [d \in {} |-> {}]

\* the session before the first action
InitSession ==
    /\ metadata = None
    /\ file_ready = NoneStr
    /\ file_name = NoneStr
    /\ url_input = ""
    /\ pending = NoPending
    /\ pc = "idle"
    /\ run = IdleRun
    /\ page = [msgs |-> <<>>, download_btn |-> FALSE, download_now |-> None]
    /\ log = <<>>
    /\ scratch = NoDirs
    /\ calls = <<>>
    /\ ret = NoRet
    /\ file_url = NoneStr

Init ==
    /\ InitSession
    /\ fn_in = NoFn
    /\ fn_out = NoFn

(***************************************************************************)
(* The user.                                                               *)
(***************************************************************************)
\* the user changes the URL field; the page reruns.  The script reads the field
\* once, when it starts, so a change made during a run or while a request
\* waits is a change made after the run or before the request.
EditUrl ==
    /\ pc = "idle"
    /\ pending = NoPending
    /\ \E u \in UrlChoices : u # url_input /\ url_input' = u
    /\ pending' = [pending EXCEPT !.rerun = TRUE]
    /\ UNCHANGED <<session, pc, run, page, log, scratch, calls, ret, file_url, fn_in, fn_out>>

\* the user presses "analyze link"
ClickAnalyze ==
    /\ pending' = [pending EXCEPT !.rerun = TRUE, !.analyze = TRUE]
    /\ UNCHANGED <<session, url_input, pc, run, page, log, scratch, calls, ret, file_url,
                   fn_in, fn_out>>

\* the user presses "prepare file for download", which the page shows
ClickDownload ==
    /\ page.download_btn
    /\ pending' = [pending EXCEPT !.rerun = TRUE, !.download = TRUE]
    /\ UNCHANGED <<session, url_input, pc, run, page, log, scratch, calls, ret, file_url,
                   fn_in, fn_out>>

(***************************************************************************)
(* The script run.                                                         *)
(***************************************************************************)
\* the session's script thread takes the waiting rerun request and runs main
StartRun ==
    /\ pc = "idle"
    /\ pending.rerun
    /\ \E sel \in Selections :
          /\ pending.download \/ sel = DefaultSelection
          /\ run' = [analyze_btn  |-> pending.analyze,
                     download_btn |-> pending.download,
                     url          |-> url_input,
                     sel          |-> sel]
    /\ pending' = NoPending
    /\ pc' = "analyze"
    /\ page' = [page EXCEPT !.msgs = <<>>]
    /\ log' = <<>>
    /\ ret' = NoRet
    /\ UNCHANGED <<session, url_input, scratch, calls, file_url, fn_in, fn_out>>

\* `if analyze_btn and url:` up to the inspect call
AnalyzeStep ==
    /\ pc = "analyze"
    /\ LET branch == AnalyzeBranch(run.analyze_btn, run.url)
       IN  /\ pc' = IF branch = "extract" THEN InspectCallPc ELSE "render"
           /\ page' = IF branch = "invalid"
                      THEN [page EXCEPT !.msgs = Append(@, Shown("error", MsgInvalidUrl))]
                      ELSE page
           /\ log' = IF branch = "extract" THEN Append(log, ExtractStartLog(run.url)) ELSE log
           /\ calls' = IF branch = "extract"
                       THEN Append(calls, [mode |-> "inspect", url |-> run.url])
                       ELSE calls
    /\ UNCHANGED <<session, url_input, pending, run, scratch, ret, file_url, fn_in, fn_out>>

\* the inspect call ends; the rest of extract_metadata and of the analyze handler
InspectEnds ==
    /\ pc = InspectCallPc
    /\ \E lib \in InspectAnswers :
          LET res  == extract_metadata(run.url, lib)
              sess == SessionAfterAnalyze(Sess, res)
          IN  /\ metadata' = sess.metadata
              /\ file_ready' = sess.file_ready
              /\ file_name' = sess.file_name
              /\ log' = log \o res.log
              /\ ret' = [fn |-> "extract_metadata", lib |-> lib, res |-> res]
              /\ page' = [page EXCEPT !.msgs = Append(@, AnalyzeMessage(res))]
              /\ file_url' = IF sess.file_ready = file_ready THEN file_url ELSE NoneStr
    /\ calls' = SubSeq(calls, 1, Len(calls) - 1)
    /\ pc' = "render"
    /\ UNCHANGED <<url_input, pending, run, scratch, fn_in, fn_out>>

\* `if st.session_state.metadata:` false, or true with no download trigger: the
\* page is drawn to its end
RenderEnds ==
    /\ pc = "render"
    /\ ~(TruthyDict(metadata) /\ run.download_btn)
    /\ page' = [page EXCEPT
                  !.download_btn = TruthyDict(metadata),
                  !.download_now = IF TruthyDict(metadata)
                                   THEN DownloadNow(file_ready, file_name)
                                   ELSE None]
    /\ pc' = "idle"
    /\ run' = IdleRun
    /\ UNCHANGED <<session, url_input, pending, log, scratch, calls, ret, file_url,
                   fn_in, fn_out>>

\* `if download_btn:` up to the fetch call, inside download_content
RenderStartsDownload ==
    /\ pc = "render"
    /\ TruthyDict(metadata)
    /\ run.download_btn
    /\ DirNames \ DOMAIN scratch # {}
    /\ LET dir == FreshDir(DOMAIN scratch) IN
          LET dl_type == IF run.sel.download_type = VideoLabel THEN "video" ELSE "audio"
              opts    == build_ydl_options(dir, dl_type, run.sel.extension, run.sel.quality)
          IN  /\ scratch' = [d \in (DOMAIN scratch) \cup {dir} |->
                                IF d = dir THEN {} ELSE scratch[d]]
              /\ calls' = Append(calls, [mode |-> "fetch",
                                         url  |-> DownloadCallUrl(
                                                     [metadata |-> metadata,
                                                      url      |-> run.url]),
                                         opts |-> opts, dir |-> dir])
              /\ log' = Append(log, DownloadStartLog(dl_type, run.sel.extension,
                                                     run.sel.quality))
    /\ page' = [page EXCEPT !.download_btn = TRUE]
    /\ pc' = FetchCallPc
    /\ UNCHANGED <<session, url_input, pending, run, ret, file_url, fn_in, fn_out>>

\* the library writes a file into the scratch directory of the fetch call
FetchWritesFile ==
    /\ pc = FetchCallPc
    /\ LET call == calls[Len(calls)]
       IN  /\ Cardinality(scratch[call.dir]) < MaxFiles
           /\ \E f \in FilePool \ scratch[call.dir] :
                 scratch' = [scratch EXCEPT ![call.dir] = @ \cup {f}]
    /\ UNCHANGED <<session, url_input, pending, pc, run, page, log, calls, ret, file_url,
                   fn_in, fn_out>>

\* the fetch call ends; the rest of download_content and of the download handler,
\* and the page drawn to its end
FetchEnds ==
    /\ pc = FetchCallPc
    /\ LET call  == calls[Len(calls)]
           files == scratch[call.dir]
       IN  \E lib \in FetchAnswers :
           \E pick \in (IF files = {} THEN {NoFile} ELSE files) :
              LET res  == download_content(files, pick, lib)
                  sess == SessionAfterDownload(Sess, res)
              IN  /\ scratch' = ScratchAfterExit(scratch, call.dir, res)
                  /\ metadata' = sess.metadata
                  /\ file_ready' = sess.file_ready
                  /\ file_name' = sess.file_name
                  /\ log' = log \o res.log
                  /\ ret' = [fn |-> "download_content", lib |-> lib, res |-> res,
                             empty |-> (files = {})]
                  /\ page' = [page EXCEPT
                                !.msgs = Append(@, DownloadMessage(res)),
                                !.download_now = DownloadNow(sess.file_ready, sess.file_name)]
                  /\ file_url' = IF res.kind = "return" THEN call.url ELSE file_url
    /\ calls' = SubSeq(calls, 1, Len(calls) - 1)
    /\ pc' = "idle"
    /\ run' = IdleRun
    /\ UNCHANGED <<url_input, pending, fn_in, fn_out>>

Next ==
    \/ EditUrl
    \/ ClickAnalyze
    \/ ClickDownload
    \/ StartRun
    \/ AnalyzeStep
    \/ InspectEnds
    \/ RenderEnds
    \/ RenderStartsDownload
    \/ FetchWritesFile
    \/ FetchEnds

Spec == Init /\ [][Next]_vars

(***************************************************************************)
(* The extraction-error classifier applied on its own, to error texts put  *)
(* together from fragments.                                                *)
(***************************************************************************)
\* sixty characters that hold none of the classifier's substrings
Filler == "012345678901234567890123456789012345678901234567890123456789"

ErrFragments ==
    <<"login required", "Sign in with COOKIES", "Instagram", "HTTP Error 403",
      "IP Blocked", "rate-limit", "Video Not Available", "timed out", Filler>>

\* how many fragments an error text is made of at most
MaxFrags == 2

RECURSIVE JoinFragments(_)
JoinFragments(ix) ==
    IF Len(ix) = 0 THEN ""
    ELSE IF Len(ix) = 1 THEN ErrFragments[ix[1]]
    ELSE ErrFragments[ix[1]] \o ": " \o JoinFragments(Tail(ix))

ClassifyInputs ==
    {JoinFragments(ix) :
        ix \in UNION {[1..n -> 1..Len(ErrFragments)] : n \in 0..MaxFrags}}

InitClassify ==
    /\ InitSession
    /\ \E e \in ClassifyInputs : fn_in = [fn |-> "classify", error_msg |-> e]
    /\ fn_out = NoFn

\* `except Exception as e:` of the analyze handler, for str(e) = fn_in.error_msg
ClassifyApply ==
    /\ fn_in.fn = "classify"
    /\ fn_out = NoFn
    /\ fn_out' = [fn |-> "classify", msg |-> ClassifyExtractError(fn_in.error_msg)]
    /\ UNCHANGED <<session, url_input, pending, pc, run, page, log, scratch, calls, ret,
                   file_url, fn_in>>

NextClassify == ClassifyApply

SpecClassify == InitClassify /\ [][NextClassify]_vars

(***************************************************************************)
(* build_ydl_options applied on its own, to selections the page offers and *)
(* to ones it does not.                                                    *)
(***************************************************************************)
OptsInputs ==
    {[fn |-> "build_ydl_options", temp_dir |-> d, download_type |-> ty,
      extension |-> e, quality |-> q] :
        d \in DirNames,
        ty \in {"video", "audio"},
        e \in {"mp4", "mkv", "webm", "mp3", "m4a", "wav", "avi"},
        q \in {BestLabel, "4K (2160p)", "1080p", "720p", "192kbps", "128kbps",
               "best", "480p", ""}}

InitOpts ==
    /\ InitSession
    /\ fn_in \in OptsInputs
    /\ fn_out = NoFn

OptsApply ==
    /\ fn_in.fn = "build_ydl_options"
    /\ fn_out = NoFn
    /\ fn_out' = [fn   |-> "build_ydl_options",
                  opts |-> build_ydl_options(fn_in.temp_dir, fn_in.download_type,
                                             fn_in.extension, fn_in.quality)]
    /\ UNCHANGED <<session, url_input, pending, pc, run, page, log, scratch, calls, ret,
                   file_url, fn_in>>

NextOpts == OptsApply

SpecOpts == InitOpts /\ [][NextOpts]_vars

(***************************************************************************)
(* get_platform_name applied on its own, to texts made of URL pieces: no   *)
(* domain of the table, one, or several, in either order and in any case.  *)
(***************************************************************************)
UrlFragments ==
    <<"https://", "www.", "YouTube.com", "youtu.be", "TIKTOK.com", "x.com",
      "twitter.com", "netflix.com", "instagram.com", "/watch?v=1", "example.org",
      "spotify.com">>

\* how many pieces a text is made of at most
MaxParts == 2

RECURSIVE JoinParts(_)
JoinParts(ix) ==
    IF Len(ix) = 0 THEN "" ELSE UrlFragments[ix[1]] \o JoinParts(Tail(ix))

PlatformInputs ==
    {JoinParts(ix) :
        ix \in UNION {[1..n -> 1..Len(UrlFragments)] : n \in 0..MaxParts}}

InitPlatform ==
    /\ InitSession
    /\ \E u \in PlatformInputs : fn_in = [fn |-> "get_platform_name", url |-> u]
    /\ fn_out = NoFn

PlatformApply ==
    /\ fn_in.fn = "get_platform_name"
    /\ fn_out = NoFn
    /\ fn_out' = [fn |-> "get_platform_name", label |-> get_platform_name(fn_in.url)]
    /\ UNCHANGED <<session, url_input, pending, pc, run, page, log, scratch, calls, ret,
                   file_url, fn_in>>

NextPlatform == PlatformApply

SpecPlatform == InitPlatform /\ [][NextPlatform]_vars

(***************************************************************************)
(* The claims.                                                             *)
(***************************************************************************)
\* a step in which an extract_metadata call ends
ExtractEndsStep == ret' # ret /\ ret'.fn = "extract_metadata"

\* a step in which a download_content call ends
DownloadEndsStep == ret' # ret /\ ret'.fn = "download_content"

\* a step in which the analyze handler rejects the URL
UrlRejectedStep ==
    /\ pc = "analyze"
    /\ run.analyze_btn
    /\ Len(run.url) > 0
    /\ ~validate_url(run.url)
    /\ pc' # pc

\* a step in which an analyze action fails
AnalyzeFailsStep ==
    \/ UrlRejectedStep
    \/ ExtractEndsStep /\ (ret'.res.kind = "raise" \/ ret'.res.value = None)

\* a step in which an analyze action succeeds
AnalyzeSucceedsStep ==
    ExtractEndsStep /\ ret'.res.kind = "return" /\ ret'.res.value # None

\* a step in which a prepare-download action fails
DownloadFailsStep == DownloadEndsStep /\ ret'.res.kind = "raise"

\* a step in which a prepare-download action succeeds
DownloadSucceedsStep == DownloadEndsStep /\ ret'.res.kind = "return"

SessionUnchanged ==
    /\ metadata' = metadata
    /\ file_ready' = file_ready
    /\ file_name' = file_name

\* C1: a failed analyze action (URL rejected, extract_metadata raises or returns
\* no record) and a failed prepare-download action (download_content raises)
\* leave the stored metadata, file bytes and file name as they were.
C1_FailedActionKeepsSession ==
    [][(AnalyzeFailsStep \/ DownloadFailsStep) => SessionUnchanged]_vars

\* C1 witness: a download has failed with metadata and a file stored
C1_Witness ==
    /\ ret.fn = "download_content"
    /\ ret.res.kind = "raise"
    /\ metadata # None
    /\ TruthyBytes(file_ready)
    /\ file_name # NoneStr

\* C2 as stated: a stored download result changes only by a successful download.
C2_FileKeptUntilNextDownload ==
    [][file_ready # NoneStr =>
          \/ file_ready' = file_ready /\ file_name' = file_name
          \/ DownloadSucceedsStep]_vars

\* C2, amended: a stored download result changes only by a successful download,
\* which overwrites bytes and name, or by a successful analyze action, which
\* sets the bytes to None and keeps the name; no failed action changes it.
C2_FileKeptUntilDownloadOrAnalyze ==
    [][file_ready # NoneStr =>
          \/ file_ready' = file_ready /\ file_name' = file_name
          \/ /\ DownloadSucceedsStep
             /\ file_ready' = ret'.res.file_bytes
             /\ file_name' = ret'.res.file_name
          \/ /\ AnalyzeSucceedsStep
             /\ file_ready' = NoneStr
             /\ file_name' = file_name]_vars

\* C2 witness: an analyze action succeeded after a file was stored: the bytes
\* are gone, the name is still there
C2_Witness ==
    /\ ret.fn = "extract_metadata"
    /\ ret.res.kind = "return"
    /\ ret.res.value # None
    /\ file_ready = NoneStr
    /\ file_name # NoneStr

\* C3: no scratch directory exists unless a download_content call is inside its
\* fetch call: after the call returned (name, bytes), after the fetch call
\* raised and after the no-output-file error the directory is gone.
C3_ScratchGoneAfterCall ==
    /\ pc # FetchCallPc => DOMAIN scratch = {}
    /\ ret.fn = "download_content" => DOMAIN scratch = {}

\* C3 witness: the fetch call raised after the library had written a file
C3_Witness ==
    /\ ret.fn = "download_content"
    /\ ret.lib.kind = "raise"
    /\ ~ret.empty
    /\ DOMAIN scratch = {}

\* C4: when the fetch call ends without raising and the scratch directory is
\* empty, download_content raises the no-output-file error, returns no
\* (name, bytes), and the stored file is not updated.
C4_EmptyDirRaisesNoFile ==
    [][(DownloadEndsStep /\ ret'.lib.kind = "return" /\ ret'.empty) =>
          /\ ret'.res.kind = "raise"
          /\ ret'.res.exc = NoFileMsg
          /\ file_ready' = file_ready
          /\ file_name' = file_name]_vars

\* C4 witness: the fetch call returned with the directory empty, a file being
\* stored from an earlier download
C4_Witness ==
    /\ ret.fn = "download_content"
    /\ ret.lib.kind = "return"
    /\ ret.empty
    /\ ret.res.kind = "raise"
    /\ TruthyBytes(file_ready)

\* a step in which an inspect call is made
InspectStartsStep ==
    /\ Len(calls') = Len(calls) + 1
    /\ calls'[Len(calls')].mode = "inspect"

\* C5: an inspect call is made only by an analyze action, for the URL that
\* action read and validate_url accepted; an analyze action on a rejected URL
\* makes no library call.
C5_InspectOnlyValidatedUrl ==
    [][/\ InspectStartsStep =>
            /\ run.analyze_btn
            /\ validate_url(run.url)
            /\ calls'[Len(calls')].url = run.url
       /\ UrlRejectedStep => calls' = calls]_vars

\* C5 witness: the analyze action has rejected `not-a-url` and no call is made
C5_Witness ==
    /\ pc = "render"
    /\ run.analyze_btn
    /\ run.url = "not-a-url"
    /\ calls = <<>>
    /\ ret = NoRet
    /\ Len(page.msgs) = 1
    /\ page.msgs[1].text = MsgInvalidUrl

CallsOfMode(mode) == {i \in 1..Len(calls) : calls[i].mode = mode}

C7_LibraryErrorLoggedAndRaised ==
    (ret.fn # "none" /\ ret.lib.kind = "raise") =>
        /\ ret.res.kind = "raise"
        /\ ret.res.exc = ret.lib.exc
        /\ \E i \in 1..Len(log) :
              log[i].level = "error" /\ Contains(log[i].message, ret.lib.exc)

\* C7 witness: the inspect call raised
C7_Witness ==
    /\ ret.fn = "extract_metadata"
    /\ ret.lib.kind = "raise"
    /\ ret.res.kind = "raise"

MetadataKeys ==
    {"title", "duration", "thumbnail", "uploader", "view_count", "platform", "url",
     "formats"}

\* C8: extract_metadata ends in one of three ways: it raises (the inspect call
\* raised), it returns None (the inspect call returned no record), or it
\* returns a record with all eight fields; on None the analyze action shows
\* "could not analyze" and stores no metadata.
C8_ThreeOutcomes ==
    [][ExtractEndsStep =>
          LET lib == ret'.lib
              res == ret'.res
          IN  \/ lib.kind = "raise" /\ res.kind = "raise"
              \/ /\ lib.kind = "return"
                 /\ ~TruthyDict(lib.info)
                 /\ res.kind = "return"
                 /\ res.value = None
                 /\ page'.msgs = Append(page.msgs, Shown("error", MsgCouldNotAnalyze))
                 /\ metadata' = metadata
              \/ /\ lib.kind = "return"
                 /\ TruthyDict(lib.info)
                 /\ res.kind = "return"
                 /\ res.value # None
                 /\ DOMAIN res.value = MetadataKeys
                 /\ metadata' = res.value]_vars

\* C8 witness: the inspect call returned None and the handler said so, and
\* before that a record made of defaults was stored
C8_Witness ==
    /\ ret.fn = "extract_metadata"
    /\ ret.lib.kind = "return"
    /\ ret.lib.info = None
    /\ ret.res.value = None
    /\ page.msgs # <<>>
    /\ page.msgs[Len(page.msgs)].text = MsgCouldNotAnalyze
    /\ metadata # None
    /\ metadata.title = "Unknown"

\* the substring tests of the classifier, in the order of the claim
ClassifierHits(e) ==
    << Contains(Lower(e), "login") \/ Contains(Lower(e), "cookies"),
       Contains(Lower(e), "instagram"),
       Contains(e, "403") \/ Contains(Lower(e), "blocked") \/ Contains(Lower(e), "rate"),
       Contains(Lower(e), "not available") >>

ClassifierMessages == <<MsgLoginRequired, MsgInstagram, MsgBlocked, MsgNotAvailable>>

\* C9: the classifier's message is the one of the first test, in the order
\* login/cookies, instagram, 403/blocked/rate, not available, that the error
\* text passes, and with none passed the generic prefix and the first 100
\* characters of the text; a text holding "login required" gets the "requires
\* login" message.
C9_FirstMatchClassifier ==
    fn_out.fn = "classify" =>
        LET e    == fn_in.error_msg
            m    == fn_out.msg
            hits == ClassifierHits(e)
        IN  /\ \A k \in 1..4 :
                  (m = ClassifierMessages[k]) <=>
                      (hits[k] /\ \A j \in 1..(k - 1) : ~hits[j])
            /\ (\A k \in 1..4 : ~hits[k]) =>
                  /\ Len(m) = Len(MsgGenericPrefix) + (IF Len(e) < 100 THEN Len(e) ELSE 100)
                  /\ m = MsgGenericPrefix \o SubSeq(e, 1, Len(m) - Len(MsgGenericPrefix))
            /\ Contains(Lower(e), "login required") =>
                  m = MsgLoginRequired /\ Slice(m, 1, Len(MsgGenericPrefix)) # MsgGenericPrefix

\* C9 witness: a text with "login required" after "Instagram" is classified
C9_Witness ==
    /\ fn_out.fn = "classify"
    /\ fn_in.error_msg = "Instagram: login required"
    /\ fn_out.msg = MsgLoginRequired

\* C10: for a quality label outside the tier table build_ydl_options still
\* yields a configuration, with the format selector bestvideo+bestaudio/best
\* for video and the quality code "0" for audio; a label of the table yields
\* its own tier.
C10_DefaultTier ==
    fn_out.fn = "build_ydl_options" =>
        LET q    == fn_in.quality
            opts == fn_out.opts
        IN  /\ "format" \in DOMAIN opts
            /\ (fn_in.download_type = "video" /\ q \notin DOMAIN video_quality_map) =>
                  opts.format = "bestvideo+bestaudio/best"
            /\ (fn_in.download_type = "video" /\ q \in DOMAIN video_quality_map) =>
                  opts.format = video_quality_map[q]
            /\ (fn_in.download_type = "audio" /\ q \notin DOMAIN audio_quality_map) =>
                  /\ Len(opts.postprocessors) = 1
                  /\ opts.postprocessors[1].preferredquality = "0"
            /\ (fn_in.download_type = "audio" /\ q \in DOMAIN audio_quality_map) =>
                  opts.postprocessors[1].preferredquality = audio_quality_map[q]

\* C10 witness: a video selection with the label "480p", which is no tier
C10_Witness ==
    /\ fn_out.fn = "build_ydl_options"
    /\ fn_in.download_type = "video"
    /\ fn_in.quality = "480p"
    /\ fn_out.opts.format = "bestvideo+bestaudio/best"

\* the post-processing steps of a configuration that convert the video
Converters(opts) ==
    IF "postprocessors" \in DOMAIN opts
    THEN {i \in 1..Len(opts.postprocessors) :
             opts.postprocessors[i].key = "FFmpegVideoConvertor"}
    ELSE {}

\* C11: for video, build_ydl_options requests the convert-to-mp4 step exactly
\* when the extension is mp4; for mkv and webm the merge container is the
\* extension and there is no converter step; video, mp4, "best" gives the
\* selector bestvideo+bestaudio/best with mp4 as merge and convert target.
C11_VideoPostProcessing ==
    (fn_out.fn = "build_ydl_options" /\ fn_in.download_type = "video") =>
        LET ext  == fn_in.extension
            opts == fn_out.opts
        IN  /\ (Converters(opts) # {}) <=> (ext = "mp4")
            /\ ext = "mp4" =>
                  /\ opts.postprocessors =
                        << [key |-> "FFmpegVideoConvertor", preferedformat |-> "mp4"] >>
                  /\ opts.merge_output_format = "mp4"
            /\ ext \in {"mkv", "webm"} =>
                  /\ opts.merge_output_format = ext
                  /\ "postprocessors" \notin DOMAIN opts
            /\ (ext = "mp4" /\ fn_in.quality \in {"best", BestLabel}) =>
                  opts.format = "bestvideo+bestaudio/best"

\* C11 witness: the configuration for video, mkv has been built
C11_Witness ==
    /\ fn_out.fn = "build_ydl_options"
    /\ fn_in.download_type = "video"
    /\ fn_in.extension = "mkv"
    /\ fn_in.quality = "best"
    /\ fn_out.opts.merge_output_format = "mkv"

\* the entries of the domain table whose domain occurs in the lowercased text
MatchingEntries(url) ==
    {i \in 1..Len(platforms) : Contains(Lower(url), platforms[i][1])}

\* C12: get_platform_name yields, for every text, the label of the first entry
\* of the ordered domain table whose domain is a substring of the lowercased
\* text, and the generic label when no entry matches; table order decides
\* between several matching entries.
C12_FirstEntryInTableOrder ==
    fn_out.fn = "get_platform_name" =>
        LET m == MatchingEntries(fn_in.url)
        IN  /\ m = {} => fn_out.label = OtherLabel
            /\ \A i \in m :
                  (\A j \in m : i <= j) => fn_out.label = platforms[i][2]
            /\ fn_out.label \in {platforms[i][2] : i \in 1..Len(platforms)}
                                   \cup {OtherLabel}
            /\ fn_in.url = "TIKTOK.comYouTube.com" => fn_out.label = "YouTube"
            /\ fn_in.url = "netflix.com" => fn_out.label = "X (Twitter)"
            /\ fn_in.url = "https://example.org" => fn_out.label = OtherLabel

\* C12 witness: a text naming a later entry of the table before an earlier one
C12_Witness ==
    /\ fn_out.fn = "get_platform_name"
    /\ fn_in.url = "TIKTOK.comYouTube.com"
    /\ Cardinality(MatchingEntries(fn_in.url)) = 2
    /\ fn_out.label = "YouTube"

\* a step in which a fetch call (download_content) starts
FetchStartsStep ==
    /\ Len(calls') = Len(calls) + 1
    /\ calls'[Len(calls')].mode = "fetch"

\* C13: a fetch call starts only when metadata is stored, and with the URL of
\* that metadata; metadata is absent at first, is stored only by a successful
\* analyze action, which stores the URL it inspected, and stays as it is in
\* every other step: so the fetch call follows a successful analysis and
\* carries the URL of the most recent one, whatever the URL field holds.
C13_FetchUsesAnalyzedUrl ==
    /\ metadata = None
    /\ [][/\ FetchStartsStep =>
               /\ TruthyDict(metadata)
               /\ calls'[Len(calls')].url = metadata.url
          /\ AnalyzeSucceedsStep =>
               /\ calls # <<>>
               /\ calls[Len(calls)].mode = "inspect"
               /\ metadata'.url = calls[Len(calls)].url
          /\ ~AnalyzeSucceedsStep => metadata' = metadata]_vars

\* C13 witness: a fetch call is in progress for the analyzed URL while the URL
\* field, and the run that made the call, hold another text
C13_Witness ==
    /\ pc = FetchCallPc
    /\ calls[Len(calls)].mode = "fetch"
    /\ calls[Len(calls)].url = metadata.url
    /\ url_input # metadata.url
    /\ run.url = url_input
    /\ validate_url(url_input)

\* C14: stored file bytes come with stored metadata and were fetched from the
\* URL of that metadata; a completed render offers only such a file for
\* download; a successful analyze action clears the stored file bytes.
C14_FileBelongsToMetadata ==
    /\ [](file_ready # NoneStr =>
             /\ TruthyDict(metadata)
             /\ file_url = metadata.url)
    /\ []((pc = "idle" /\ page.download_now # None) =>
             /\ page.download_now.data = file_ready
             /\ TruthyDict(metadata)
             /\ file_url = metadata.url)
    /\ [][AnalyzeSucceedsStep => file_ready' = NoneStr]_vars

\* C14 witness: after a file was fetched, another URL has been analyzed and the
\* page has been rendered: new metadata, no file bytes, no "download now"
C14_Witness ==
    /\ pc = "idle"
    /\ ret.fn = "extract_metadata"
    /\ ret.res.kind = "return"
    /\ TruthyDict(metadata)
    /\ metadata.url = "HTTPS://Example.com/x"
    /\ file_name # NoneStr
    /\ file_ready = NoneStr
    /\ page.download_now = None

\* C15: a completed render offers "download now" exactly when metadata is
\* stored and the stored file bytes are non-empty, and the element carries the
\* stored file name and bytes; a prepare-download action whose file has zero
\* length stores it and shows the success message, and no "download now".
C15_DownloadNowIffNonEmptyFile ==
    /\ [](pc = "idle" =>
             /\ (page.download_now # None) <=>
                   /\ TruthyDict(metadata)
                   /\ file_ready # NoneStr
                   /\ Len(file_ready) > 0
             /\ page.download_now # None =>
                   /\ page.download_now.data = file_ready
                   /\ page.download_now.file_name = file_name)
    /\ [][(DownloadSucceedsStep /\ Len(ret'.res.file_bytes) = 0) =>
             /\ file_ready' = ret'.res.file_bytes
             /\ file_name' = ret'.res.file_name
             /\ page'.msgs[Len(page'.msgs)] = Shown("success", MsgFileReady)
             /\ page'.download_now = None]_vars

\* C15 witness: a prepare-download action has stored a file of zero length
C15_Witness ==
    /\ pc = "idle"
    /\ ret.fn = "download_content"
    /\ ret.res.kind = "return"
    /\ file_ready = ""
    /\ file_name = "Clip.MP3"
    /\ page.msgs[Len(page.msgs)].text = MsgFileReady
    /\ page.download_now = None
====
